---- MODULE Spec2Model ----
(***************************************************************************)
(* NanoRSS: the feed refresh and indexing pipeline and the feed and        *)
(* search handlers.                                                        *)
(*                                                                         *)
(* The model follows src/src/fetch.rs (fetch_feed, fetch_all_feeds),       *)
(* src/src/db.rs (Feed, PatchFeed, Article and their sled trees),          *)
(* src/src/app.rs (open_user, create_search_index, search) and             *)
(* src/src/main.rs (post_feed, patch_feed, search).  The variables feeds,  *)
(* articles and index are the trees of one user; trees is the whole        *)
(* database where several users matter.  Strings used as sled keys are     *)
(* byte sequences, so that the two key encodings of the article tree       *)
(* (raw bytes on insert, bincode on lookup) stay distinct.  Texts are      *)
(* sequences of words.  Option<T> is a sequence of length 0 or 1.          *)
(***************************************************************************)
EXTENDS Integers, Sequences, FiniteSets, TLC

\* ------------------------------------------------------------------ bounds
MaxClock == 2        \* the wall clock takes the values 1..MaxClock
MaxEntries == 1      \* longest parse result of one fetch
MaxSubscriptions == 2 \* ids that generate_id hands out after the initial feeds

\* -------------------------------------------------------- program constants
ConcurrencyLimit == 32   \* try_for_each_concurrent(32, ..)
MIN_UTC == 0             \* DateTime::<Utc>::MIN_UTC, before every clock value

Refreshes == {1, 2}      \* request slots of POST /api/v1/refresh of the user

None == <<>>
Some(x) == <<x>>

Ok(x) == [ok |-> TRUE, val |-> x, err |-> "Ok"]
Err(e) == [ok |-> FALSE, val |-> None, err |-> e]

\* ------------------------------------------------------------ err.rs
\* Display of Error (thiserror #[error] strings, arguments left out).
ErrorMessage(e) ==
    CASE e = "Sled" -> "database error"
      [] e = "Encode" -> "serialization error"
      [] e = "Reqwest" -> "http client error"
      [] e = "FeedRS" -> "error while parsing feed"
      [] OTHER -> e

\* ------------------------------------------------------------ bincode
\* A u64 in bincode's fixed-width little-endian encoding (values < 65536).
U64LE(n) == <<n % 256, (n \div 256) % 256, 0, 0, 0, 0, 0, 0>>

\* bincode::serialize of a &str or String: length prefix, then the bytes.
BincodeStr(s) == U64LE(Len(s)) \o s

\* str::as_bytes: a string is modelled by its UTF-8 bytes.
AsBytes(s) == s

\* Lexicographic order of byte strings, the iteration order of a sled tree.
RECURSIVE BytesLess(_, _)
BytesLess(a, b) ==
    IF b = <<>> THEN FALSE
    ELSE IF a = <<>> THEN TRUE
    ELSE IF Head(a) # Head(b) THEN Head(a) < Head(b)
    ELSE BytesLess(Tail(a), Tail(b))

\* The i-th key of a tree in iteration order: i - 1 keys are below it.
KeyAt(ks, i) == CHOOSE k \in ks : Cardinality({o \in ks : BytesLess(o, k)}) = i - 1

\* ------------------------------------------------------------ db.rs: Feed
FeedKey(id) == U64LE(id)

\* Feed::insert: overwrite by id.
FeedInsert(tree, feed) ==
    [k \in DOMAIN tree \cup {FeedKey(feed.id)} |->
        IF k = FeedKey(feed.id) THEN feed ELSE tree[k]]

\* Feed::get_all: every record, in key order.
FeedGetAll(tree) == [i \in 1..Cardinality(DOMAIN tree) |-> tree[KeyAt(DOMAIN tree, i)]]

\* NewFeed::insert builds this record.
NewFeedRecord(id, url, name, scraper) ==
    [id |-> id, url |-> url, name |-> IF name = None THEN "" ELSE name[1],
     scraper |-> scraper, last_fetch_time |-> MIN_UTC, last_error |-> None]

\* ------------------------------------------------------------ db.rs: Article
\* bincode::serialize(&Article): the id string comes first (head); the other
\* fields follow in declaration order (tail) and are kept as a record.
SerializeArticle(a) ==
    [head |-> BincodeStr(a.id),
     tail |-> [feed_id |-> a.feed_id, published |-> a.published, url |-> a.url,
               title |-> a.title, summary |-> a.summary, content |-> a.content]]

\* bincode::deserialize::<Article>, as Article::iter uses it.
DeserializeArticle(v) ==
    LET n == v.head[1] + 256 * v.head[2] IN
    Ok([id |-> SubSeq(v.head, 9, 8 + n),
        feed_id |-> v.tail.feed_id, published |-> v.tail.published,
        url |-> v.tail.url, title |-> v.tail.title,
        summary |-> v.tail.summary, content |-> v.tail.content])

\* bincode::deserialize::<Option<Article>>, as Article::get_id uses it (the
\* else branch `None` fixes the type).  The first byte is read as the Option
\* tag; for tag 1 the string length is read from bytes 2..9, that is seven
\* bytes of the real length and the first byte of the id.
DeserializeOptionArticle(v) ==
    LET tag == v.head[1] IN
    IF tag = 0 THEN Ok(None)
    ELSE IF tag = 1
    THEN IF Len(v.head) = 9 /\ SubSeq(v.head, 2, 9) = U64LE(0)
         THEN Ok(Some([id |-> <<>>,
                       feed_id |-> v.tail.feed_id, published |-> v.tail.published,
                       url |-> v.tail.url, title |-> v.tail.title,
                       summary |-> v.tail.summary, content |-> v.tail.content]))
         ELSE Err("Encode")
    ELSE Err("Encode")

\* The key Article::get_id looks up: bincode::serialize(&id).
ArticleKeyGet(id) == BincodeStr(id)

\* The key Article::insert writes: self.id.as_bytes().
ArticleKeyInsert(id) == AsBytes(id)

\* Article::get_id.
ArticleGetId(tree, id) ==
    IF ArticleKeyGet(id) \in DOMAIN tree
    THEN DeserializeOptionArticle(tree[ArticleKeyGet(id)])
    ELSE Ok(None)

\* Variant: the articles the feed had before are dropped on insert.
ArticleInsertPruned(tree, a) ==
    [k \in {j \in DOMAIN tree : tree[j].tail.feed_id # a.feed_id}
              \cup {ArticleKeyInsert(a.id)} |->
        IF k = ArticleKeyInsert(a.id) THEN SerializeArticle(a) ELSE tree[k]]

\* Article::insert.
ArticleInsert(tree, a) ==
    [k \in DOMAIN tree \cup {ArticleKeyInsert(a.id)} |->
        IF k = ArticleKeyInsert(a.id) THEN SerializeArticle(a) ELSE tree[k]]

\* Article::iter, collected: the stored articles.
ArticleAll(tree) == {DeserializeArticle(tree[k]).val : k \in DOMAIN tree}

\* impl Indexable for Article.
Strings(a) == <<a.title, a.summary, a.content>>

\* ------------------------------------------------------------ app.rs: index
\* The words of an article's indexed strings (the tokenizer of the index).
Tokens(a) ==
    UNION {{Strings(a)[i][j] : j \in 1..Len(Strings(a)[i])} : i \in 1..Len(Strings(a))}

\* search_index.insert(&article.id, &article) for every scanned article, into an
\* index that starts empty: keyword -> set of article ids.
BuildIndex(arts) ==
    [t \in UNION {Tokens(a) : a \in arts} |-> {a.id : a \in {x \in arts : t \in Tokens(x)}}]

\* bincode of the BTreeMap: its (keyword, ids) entries.
SerializeIndex(m) == {<<t, m[t]>> : t \in DOMAIN m}

DeserializeIndex(b) ==
    [t \in {p[1] : p \in b} |-> (CHOOSE p \in b : p[1] = t)[2]]

\* Variant: the new postings are merged into the stored blob.
IndexBlobMerged(old, arts) ==
    LET fresh == BuildIndex(arts)
        prior == IF old = None THEN BuildIndex({}) ELSE DeserializeIndex(old[1])
    IN Some(SerializeIndex(
         [t \in DOMAIN fresh \cup DOMAIN prior |->
            (IF t \in DOMAIN fresh THEN fresh[t] ELSE {})
              \cup (IF t \in DOMAIN prior THEN prior[t] ELSE {})]))

\* The blob create_search_index stores over the old one (an Option).
IndexBlobAfter(old, arts) == Some(SerializeIndex(BuildIndex(arts)))

\* AppUser::search: an absent blob is the empty index.
Search(blob, term) ==
    LET m == IF blob = None THEN BuildIndex({}) ELSE DeserializeIndex(blob[1])
    IN IF term \in DOMAIN m THEN m[term] ELSE {}

\* ------------------------------------------------------------ fetch.rs: fetch_feed
IdA == <<97>>                             \* "a"
IdB == <<1, 0, 0, 0, 0, 0, 0, 0, 97>>     \* the string whose bytes are bincode("a")
ArticleIds == {IdA, IdB}
EntryDates == {1}
Words == {"rust", "news", "feed"}

\* What the parser can return for one entry.
EntryShapes ==
    { [title |-> Some(<<"rust">>), summary |-> None, content |-> None,
       links |-> <<"l1">>],
      [title |-> None, summary |-> Some(<<"news">>),
       content |-> Some([src |-> Some("s1"), body |-> Some(<<"feed">>)]),
       links |-> <<>>] }

Entries ==
    { [id |-> i, published |-> p, title |-> s.title, summary |-> s.summary,
       content |-> s.content, links |-> s.links] :
      i \in ArticleIds, p \in {None} \cup {Some(d) : d \in EntryDates}, s \in EntryShapes }

RECURSIVE SeqsUpTo(_, _)
SeqsUpTo(S, n) ==
    IF n = 0 THEN {<<>>}
    ELSE LET shorter == SeqsUpTo(S, n - 1)
         IN shorter \cup {Append(q, x) : q \in {y \in shorter : Len(y) = n - 1}, x \in S}

ParseResults == SeqsUpTo(Entries, MaxEntries)

\* A feed that only ever carries one date-less entry.
PlainEntry ==
    [id |-> IdA, published |-> None, title |-> Some(<<"rust">>), summary |-> None,
     content |-> None, links |-> <<"l1">>]

PlainResults == SeqsUpTo({PlainEntry}, MaxEntries)

FetchErrors == {"Reqwest", "FeedRS"}

\* The prior-article lookup: an error is logged and becomes None.
PrevArticle(lookup) == IF lookup.ok THEN lookup.val ELSE None

\* entry.published.or_else(|| prev_article.map(..)).unwrap_or(utc_now)
Published(entry_published, prev_article, utc_now) ==
    IF entry_published # None THEN entry_published[1]
    ELSE IF prev_article # None THEN prev_article[1].published
    ELSE utc_now

\* The content source link, else the first link, else nothing.
ArticleUrl(entry) ==
    IF entry.content # None /\ entry.content[1].src # None
    THEN Some(entry.content[1].src[1])
    ELSE IF entry.links # <<>> THEN Some(Head(entry.links)) ELSE None

UnwrapOrDefault(o) == IF o = None THEN <<>> ELSE o[1]

\* The Article fetch_feed builds for one entry.
MakeArticle(entry, feed, prev_article, utc_now) ==
    [id |-> entry.id,
     feed_id |-> feed.id,
     url |-> ArticleUrl(entry),
     title |-> UnwrapOrDefault(entry.title),
     summary |-> UnwrapOrDefault(entry.summary),
     published |-> Published(entry.published, prev_article, utc_now),
     content |-> IF entry.content = None THEN <<>>
                 ELSE UnwrapOrDefault(entry.content[1].body)]

\* ------------------------------------------------------------ fetch.rs: fetch_all_feeds
\* Variant: the worker's error is not recorded.
LastErrorDiscarded(result) == None

\* feed.last_error = result.err().map(|e| format!("{}", e))
LastError(result) == IF result = "Ok" THEN None ELSE Some(ErrorMessage(result))

\* Variant: the worker's error is propagated with `?`.
ClosureResultPropagated(result, insert_ok) ==
    IF result # "Ok" THEN result ELSE IF insert_ok THEN "Ok" ELSE "Sled"

\* What the per-feed closure returns: only feed.insert(app)? can fail it.
ClosureResult(result, insert_ok) == IF insert_ok THEN "Ok" ELSE "Sled"

\* Variant: the rebuild's result is ignored.
RefreshResultIgnored(rebuild) == [v |-> "Ok", line |-> 80]

\* Lines 78-80: `app.create_search_index()?; Ok(())`.
RefreshResult(rebuild) ==
    IF rebuild = "Ok" THEN [v |-> "Ok", line |-> 80] ELSE [v |-> rebuild, line |-> 78]

VARIABLES
    now,        \* the wall clock (Utc::now)
    feeds,      \* sled tree "{user}/feeds":    key -> Feed
    articles,   \* sled tree "{user}/articles": key -> serialized Article
    index,      \* sled tree "{user}/index":    Option of the blob at __article_search_index
    pc,         \* per invocation: "idle", "tasks", "rebuild", "done"
    started,    \* per invocation: the clock value when it was called
    task,       \* per invocation: the per-feed futures of try_for_each_concurrent
    snapshot,   \* per invocation: the articles create_search_index has scanned
    res,        \* per invocation: the Result returned to the caller
    idgen,      \* the next value of sled's Db::generate_id
    reply,      \* the response to the last request other than a refresh
    trees,      \* the sled Db of a multi-user deployment: tree name -> tree
    user        \* the username of the last request of a multi-user deployment

\* What the refresh pipeline leaves alone.
ext == <<idgen, reply, trees, user>>

vars == <<now, feeds, articles, index, pc, started, task, snapshot, res, ext>>

NoReply == [op |-> "none"]

NoResult == [v |-> "none", line |-> 0]

\* Variant: the closure's copy of the feed is rebuilt with the default name.
NewTaskUnnamed(feed) ==
    [st |-> "queued", feed |-> [feed EXCEPT !.name = ""], parsed |-> <<>>, idx |-> 0,
     utc_now |-> MIN_UTC, result |-> "none"]

\* A future of the stream that has not been polled yet.  st: "queued", "await"
\* (the request is out), "loop" (the entry loop), "fetched" (fetch_feed has
\* returned `result`), "stamped", "done" (closure returned Ok), "failed" (closure
\* returned Err), "dropped" (dropped unfinished).  parsed: what the feed's
\* server sent to this future.
NewTask(feed) ==
    [st |-> "queued", feed |-> feed, parsed |-> <<>>, idx |-> 0, utc_now |-> MIN_UTC,
     result |-> "none"]

\* The user has subscribed to the feeds F (ids from generate_id); the articles
\* tree and the index blob are as given and no request is being served.
InitWith(F, arts, blob) ==
    /\ now = 1
    /\ feeds = [k \in {FeedKey(id) : id \in F} |->
                  NewFeedRecord(CHOOSE id \in F : FeedKey(id) = k,
                                <<"http", CHOOSE id \in F : FeedKey(id) = k>>,
                                None, None)]
    /\ articles = arts
    /\ index = blob
    /\ pc = [r \in Refreshes |-> "idle"]
    /\ started = [r \in Refreshes |-> MIN_UTC]
    /\ task = [r \in Refreshes |-> <<>>]
    /\ snapshot = [r \in Refreshes |-> {}]
    /\ res = [r \in Refreshes |-> NoResult]
    /\ idgen = Cardinality(F)
    /\ reply = NoReply
    /\ trees = <<>>
    /\ user = <<>>

\* The user has subscribed to the feeds F; nothing has been fetched yet.
InitOf(F) == InitWith(F, <<>>, None)

Tasks(r) == DOMAIN task[r]

\* A future of r is between its network await and the end of its closure: the
\* invocation is one task, so no other future of r runs meanwhile.
Running(r) == \E i \in Tasks(r) : task[r][i].st \in {"loop", "fetched", "stamped"}

\* Variant: a finished future keeps its slot.
InFlightEver(r) ==
    Cardinality({i \in Tasks(r) : task[r][i].st # "queued"})

InFlight(r) ==
    Cardinality({i \in Tasks(r) : task[r][i].st \in {"await", "loop", "fetched", "stamped"}})

\* Variant: the rebuild does not wait for the futures still out on the network.
BarrierOpenEarly(r) ==
    \A i \in Tasks(r) : task[r][i].st \in {"queued", "await", "done"}

\* try_for_each_concurrent has run every future to Ok: `.await?` goes on.
BarrierOpen(r) == \A i \in Tasks(r) : task[r][i].st = "done"

\* Feed::get_all succeeded: the stream of futures is set up.
StartRefresh(r) ==
    /\ pc[r] = "idle"
    /\ \E t \in now..MaxClock :
        /\ now' = t
        /\ started' = [started EXCEPT ![r] = t]
    /\ task' = [task EXCEPT ![r] =
                  [i \in 1..Len(FeedGetAll(feeds)) |-> NewTask(FeedGetAll(feeds)[i])]]
    /\ pc' = [pc EXCEPT ![r] = "tasks"]
    /\ UNCHANGED <<feeds, articles, index, snapshot, res, ext>>

\* Feed::get_all failed: fetch_all_feeds returns at line 64.
StartRefreshFail(r) ==
    /\ pc[r] = "idle"
    /\ \E t \in now..MaxClock :
        /\ now' = t
        /\ started' = [started EXCEPT ![r] = t]
    /\ pc' = [pc EXCEPT ![r] = "done"]
    /\ res' = [res EXCEPT ![r] = [v |-> "Sled", line |-> 64]]
    /\ UNCHANGED <<feeds, articles, index, task, snapshot, ext>>

\* Variant: the stream is driven without a limit.
SlotFreeAlways(r) == TRUE

\* try_for_each_concurrent(32, ..) polls the stream for another future only
\* while fewer than the limit are in flight.
SlotFree(r) == InFlight(r) < ConcurrencyLimit

\* The next future of the stream is started while fewer than the limit run.
StartTask(r) ==
    /\ pc[r] = "tasks"
    /\ ~Running(r)
    /\ SlotFree(r)
    /\ \E i \in Tasks(r) :
        /\ task[r][i].st = "queued"
        /\ \A j \in Tasks(r) : j < i => task[r][j].st # "queued"
        /\ task' = [task EXCEPT ![r][i].st = "await"]
    /\ UNCHANGED <<now, feeds, articles, index, pc, started, snapshot, res, ext>>

\* The request or the parse fails: fetch_feed returns the error.
FetchFail(r, i, FE) ==
    /\ pc[r] = "tasks"
    /\ i \in Tasks(r)
    /\ task[r][i].st = "await"
    /\ ~Running(r)
    /\ \E e \in FE :
        task' = [task EXCEPT ![r][i].st = "fetched", ![r][i].result = e]
    /\ UNCHANGED <<now, feeds, articles, index, pc, started, snapshot, res, ext>>

\* The response is parsed and the clock is read (line 27).
FetchOk(r, i, PR) ==
    /\ pc[r] = "tasks"
    /\ i \in Tasks(r)
    /\ task[r][i].st = "await"
    /\ ~Running(r)
    /\ \E p \in PR, t \in now..MaxClock :
        /\ now' = t
        /\ task' = [task EXCEPT ![r][i].st = IF p = <<>> THEN "fetched" ELSE "loop",
                                ![r][i].result = IF p = <<>> THEN "Ok" ELSE "none",
                                ![r][i].parsed = p,
                                ![r][i].idx = 1,
                                ![r][i].utc_now = t]
    /\ UNCHANGED <<feeds, articles, index, pc, started, snapshot, res, ext>>

\* Variant: the lookup is written with `?`.
LookupReturnsOnErr(lookup) == ~lookup.ok

\* Lines 30-36: whether the lookup makes fetch_feed return; the Err arm of
\* the match logs and yields None, so it never does.
LookupReturns(lookup) == FALSE

\* One turn of the entry loop: look up the prior article, build, insert.
Upsert(r, i) ==
    /\ pc[r] = "tasks"
    /\ i \in Tasks(r)
    /\ task[r][i].st = "loop"
    /\ LET t == task[r][i]
           entry == t.parsed[t.idx]
       IN \E lookup \in {ArticleGetId(articles, entry.id), Err("Sled")} :
            IF LookupReturns(lookup)
            THEN /\ articles' = articles
                 /\ task' = [task EXCEPT ![r][i].st = "fetched",
                                         ![r][i].result = lookup.err]
            ELSE /\ articles' = ArticleInsert(articles,
                              MakeArticle(entry, t.feed, PrevArticle(lookup), t.utc_now))
                 /\ task' = [task EXCEPT ![r][i].idx = t.idx + 1,
                                    ![r][i].st = IF t.idx = Len(t.parsed)
                                                 THEN "fetched" ELSE "loop",
                                    ![r][i].result = IF t.idx = Len(t.parsed)
                                                     THEN "Ok" ELSE "none"]
    /\ UNCHANGED <<now, feeds, index, pc, started, snapshot, res, ext>>

\* Article::insert fails: `?` leaves the loop with the storage error.
UpsertFail(r, i) ==
    /\ pc[r] = "tasks"
    /\ i \in Tasks(r)
    /\ task[r][i].st = "loop"
    /\ task' = [task EXCEPT ![r][i].st = "fetched", ![r][i].result = "Sled"]
    /\ UNCHANGED <<now, feeds, articles, index, pc, started, snapshot, res, ext>>

\* Lines 68-69: the closure stamps its copy of the feed.
Stamp(r, i) ==
    /\ pc[r] = "tasks"
    /\ i \in Tasks(r)
    /\ task[r][i].st = "fetched"
    /\ \E t \in now..MaxClock :
        /\ now' = t
        /\ task' = [task EXCEPT ![r][i].st = "stamped",
                                ![r][i].feed.last_fetch_time = t,
                                ![r][i].feed.last_error = LastError(task[r][i].result)]
    /\ UNCHANGED <<feeds, articles, index, pc, started, snapshot, res, ext>>

\* Lines 71-75: feed.insert and the closure's return value; an Err ends
\* try_for_each_concurrent at once and drops the other futures.
CloseTask(r, i, insert_ok) ==
    /\ pc[r] = "tasks"
    /\ i \in Tasks(r)
    /\ task[r][i].st = "stamped"
    /\ feeds' = IF insert_ok THEN FeedInsert(feeds, task[r][i].feed) ELSE feeds
    /\ LET cr == ClosureResult(task[r][i].result, insert_ok) IN
       IF cr = "Ok"
       THEN /\ task' = [task EXCEPT ![r][i].st = "done",
                                    ![r][i].idx = 0,
                                    ![r][i].utc_now = MIN_UTC]
            /\ UNCHANGED <<pc, res>>
       ELSE /\ task' = [task EXCEPT ![r] =
                          [j \in Tasks(r) |->
                             IF task[r][j].st = "done" THEN task[r][j]
                             ELSE [task[r][j] EXCEPT
                                     !.st = IF j = i THEN "failed" ELSE "dropped",
                                     !.idx = 0,
                                     !.utc_now = MIN_UTC]]]
            /\ pc' = [pc EXCEPT ![r] = "done"]
            /\ res' = [res EXCEPT ![r] = [v |-> cr, line |-> 75]]
    /\ UNCHANGED <<now, articles, index, started, snapshot, ext>>

WriteFeed(r, i) == CloseTask(r, i, TRUE)

WriteFeedFail(r, i) == CloseTask(r, i, FALSE)

\* create_search_index, the scan: every stored article is read and indexed.
RebuildScan(r) ==
    /\ pc[r] = "tasks"
    /\ BarrierOpen(r)
    /\ snapshot' = [snapshot EXCEPT ![r] = ArticleAll(articles)]
    /\ pc' = [pc EXCEPT ![r] = "rebuild"]
    /\ UNCHANGED <<now, feeds, articles, index, started, task, res, ext>>

\* The scan hits a storage error: create_search_index()? returns it.
RebuildScanFail(r) ==
    /\ pc[r] = "tasks"
    /\ BarrierOpen(r)
    /\ pc' = [pc EXCEPT ![r] = "done"]
    /\ res' = [res EXCEPT ![r] = RefreshResult("Sled")]
    /\ UNCHANGED <<now, feeds, articles, index, started, task, snapshot, ext>>

\* create_search_index, the write of the blob; fetch_all_feeds returns Ok.
RebuildWrite(r) ==
    /\ pc[r] = "rebuild"
    /\ index' = IndexBlobAfter(index, snapshot[r])
    /\ snapshot' = [snapshot EXCEPT ![r] = {}]
    /\ pc' = [pc EXCEPT ![r] = "done"]
    /\ res' = [res EXCEPT ![r] = RefreshResult("Ok")]
    /\ UNCHANGED <<now, feeds, articles, started, task, ext>>

\* The write of the blob fails.
RebuildWriteFail(r) ==
    /\ pc[r] = "rebuild"
    /\ snapshot' = [snapshot EXCEPT ![r] = {}]
    /\ pc' = [pc EXCEPT ![r] = "done"]
    /\ res' = [res EXCEPT ![r] = RefreshResult("Sled")]
    /\ UNCHANGED <<now, feeds, articles, index, started, task, ext>>

\* The handler has answered the request; its future and locals are gone, and
\* the next request can be served.
Respond(r) ==
    /\ pc[r] = "done"
    /\ pc' = [pc EXCEPT ![r] = "idle"]
    /\ started' = [started EXCEPT ![r] = MIN_UTC]
    /\ task' = [task EXCEPT ![r] = <<>>]
    /\ res' = [res EXCEPT ![r] = NoResult]
    /\ UNCHANGED <<now, feeds, articles, index, snapshot, ext>>

\* ------------------------------------------------------------ main.rs: post_feed
\* The record NewFeed::insert builds for the next subscription.
Subscription == NewFeedRecord(idgen, <<"http", idgen>>, Some("news"), None)

\* post_feed: generate_id, then Feed::insert, which may fail.
PostFeed ==
    /\ idgen < MaxSubscriptions
    /\ idgen' = idgen + 1
    /\ \E insert_ok \in BOOLEAN :
        /\ feeds' = IF insert_ok THEN FeedInsert(feeds, Subscription) ELSE feeds
        /\ reply' = [op |-> "post_feed", result |-> IF insert_ok THEN "Ok" ELSE "Sled"]
    /\ UNCHANGED <<now, articles, index, pc, started, task, snapshot, res, trees, user>>

\* ------------------------------------------------------------ db.rs: Feed::get_id, PatchFeed
\* bincode::deserialize::<Option<Feed>> of a stored Feed, as Feed::get_id does
\* it (the else branch `None` fixes the type).  The first byte, the low byte of
\* the id, is read as the Option tag.  For tag 1 the Feed is read one byte
\* late: the length of the url is taken from seven bytes of the real length
\* and the first byte of the url text, a scheme letter, as its top byte, which
\* is more than the input holds.
DeserializeOptionFeed(v) ==
    LET tag == U64LE(v.id)[1] IN
    IF tag = 0 THEN Ok(None) ELSE Err("Encode")

\* Feed::get_id, when the storage read succeeds.
FeedGetId(tree, id) ==
    IF FeedKey(id) \in DOMAIN tree THEN DeserializeOptionFeed(tree[FeedKey(id)])
    ELSE Ok(None)

\* Lines 98-106: the supplied fields are set on the local `feed`.
PatchOverlay(feed, patch) ==
    [feed EXCEPT !.url = IF patch.url # None THEN patch.url[1] ELSE @,
                 !.name = IF patch.name # None THEN patch.name[1] ELSE @,
                 !.scraper = IF patch.scraper # None THEN patch.scraper[1] ELSE @]

\* PatchFeed::apply: what it returns and the local `feed` it ends with.
PatchApply(lookup, patch) ==
    IF ~lookup.ok THEN [result |-> lookup.err, feed |-> None]
    ELSE IF lookup.val = None THEN [result |-> "NotFound", feed |-> None]
    ELSE [result |-> "Ok", feed |-> Some(PatchOverlay(lookup.val[1], patch))]

\* The feed ids a patch can name: two subscribed ones and one nobody has.
PatchIds == {0, 1, 2}

\* The JSON bodies of PATCH /feeds; a scraper that is given is Some(config).
Patches ==
    { [id |-> i, url |-> u, name |-> n, scraper |-> c] :
      i \in PatchIds,
      u \in {None, Some(<<"https", 9>>)},
      n \in {None, Some("renamed")},
      c \in {None, Some(Some("cfg"))} }

\* patch_feed: PatchFeed::apply returns at line 108 without a Feed::insert,
\* so the tree is as it was and the local `feed` is dropped.
PatchFeed ==
    /\ \E patch \in Patches :
        \E lookup \in {FeedGetId(feeds, patch.id), Err("Sled")} :
            reply' = [op |-> "patch_feed", patch |-> patch,
                      result |-> PatchApply(lookup, patch).result]
    /\ feeds' = feeds
    /\ UNCHANGED <<now, articles, index, pc, started, task, snapshot, res,
                   idgen, trees, user>>

\* ------------------------------------------------------------ app.rs: App::open_user
TREE_FEEDS == "feeds"
TREE_ARTICLES == "articles"
TREE_INDEX == "index"

\* Variant: the tree name leaves the username out.
TreeNameShared(username, tree) == <<tree>>

\* format!("{}/{}", username, tree); a string is the sequence of its parts.
TreeName(username, tree) == username \o <<"/", tree>>

\* The names of the trees an AppUser holds.
OpenUser(username) ==
    [feeds |-> TreeName(username, TREE_FEEDS),
     articles |-> TreeName(username, TREE_ARTICLES),
     index |-> TreeName(username, TREE_INDEX)]

\* Db::open_tree: a tree that does not exist yet is empty.
OpenTree(db, name) == IF name \in DOMAIN db THEN db[name] ELSE <<>>

\* A write into the tree of that name.
WriteTree(db, name, t) ==
    [n \in DOMAIN db \cup {name} |-> IF n = name THEN t ELSE db[n]]

\* Two users; the name of the second is the name of a tree of the first.
Usernames == {<<"ann">>, <<"ann", "/", "feeds">>}

\* What the feeds of a user carry: every user's feed has the same name and
\* the same entry id, and a word of the user's own.
WordOf(username) == IF username = <<"ann">> THEN "rust" ELSE "news"

EntryOf(username) ==
    [id |-> IdA, published |-> None, title |-> Some(<<WordOf(username)>>),
     summary |-> None, content |-> None, links |-> <<>>]

\* post_feed: NewFeed::insert with an id of the Db-wide generate_id.
TSubscribe(u) ==
    /\ idgen < MaxSubscriptions
    /\ LET h == OpenUser(u) IN
       trees' = WriteTree(trees, h.feeds,
                    FeedInsert(OpenTree(trees, h.feeds),
                               NewFeedRecord(idgen, <<"http", u>>, Some("news"), None)))
    /\ idgen' = idgen + 1
    /\ reply' = [op |-> "post_feed", result |-> "Ok"]
    /\ user' = u
    /\ UNCHANGED <<now, feeds, articles, index, pc, started, task, snapshot, res>>

\* The patches that rename a feed.
Renames == {p \in Patches : p.name # None /\ p.url = None /\ p.scraper = None}

\* patch_feed through the user's handle.
TPatch(u) ==
    /\ LET h == OpenUser(u) IN
       \E patch \in Renames :
           reply' = [op |-> "patch_feed", patch |-> patch,
                     result |-> PatchApply(FeedGetId(OpenTree(trees, h.feeds), patch.id),
                                           patch).result]
    /\ user' = u
    /\ UNCHANGED <<now, feeds, articles, index, pc, started, task, snapshot, res,
                   idgen, trees>>

\* A refresh through the user's handle, one feed at a time: the entry of the
\* feed is upserted and the feed record is stamped and persisted.
TRefreshFeed(u) ==
    /\ LET h == OpenUser(u)
           fs == FeedGetAll(OpenTree(trees, h.feeds))
       IN \E i \in 1..Len(fs) : \E result \in {"Ok", "Reqwest"} :
            LET arts == OpenTree(trees, h.articles)
                upserted == IF result = "Ok"
                            THEN ArticleInsert(arts,
                                   MakeArticle(EntryOf(u), fs[i],
                                       PrevArticle(ArticleGetId(arts, EntryOf(u).id)), now))
                            ELSE arts
                stamped == [fs[i] EXCEPT !.last_fetch_time = now,
                                         !.last_error = LastError(result)]
            IN trees' = WriteTree(WriteTree(trees, h.articles, upserted), h.feeds,
                                  FeedInsert(OpenTree(trees, h.feeds), stamped))
    /\ reply' = [op |-> "refresh", result |-> "Ok"]
    /\ user' = u
    /\ UNCHANGED <<now, feeds, articles, index, pc, started, task, snapshot, res, idgen>>

\* create_search_index through the user's handle.
TRebuild(u) ==
    /\ LET h == OpenUser(u) IN
       trees' = WriteTree(trees, h.index,
                    IndexBlobAfter(OpenTree(trees, h.index),
                                   ArticleAll(OpenTree(trees, h.articles))))
    /\ reply' = [op |-> "refresh", result |-> "Ok"]
    /\ user' = u
    /\ UNCHANGED <<now, feeds, articles, index, pc, started, task, snapshot, res, idgen>>

\* get_feeds and get_articles through the user's handle.
TList(u) ==
    /\ LET h == OpenUser(u) IN
       reply' = [op |-> "list",
                 feeds |-> FeedGetAll(OpenTree(trees, h.feeds)),
                 articles |-> ArticleAll(OpenTree(trees, h.articles))]
    /\ user' = u
    /\ UNCHANGED <<now, feeds, articles, index, pc, started, task, snapshot, res,
                   idgen, trees>>

\* AppUser::search through the user's handle.
TSearch(u) ==
    /\ LET h == OpenUser(u) IN
       \E term \in Words :
           reply' = [op |-> "search", term |-> term,
                     ids |-> Search(OpenTree(trees, h.index), term)]
    /\ user' = u
    /\ UNCHANGED <<now, feeds, articles, index, pc, started, task, snapshot, res,
                   idgen, trees>>

\* ------------------------------------------------------------ main.rs: search
\* Article::iter: the stored articles in key order.
ArticleIter(tree) ==
    [i \in 1..Cardinality(DOMAIN tree) |->
        DeserializeArticle(tree[KeyAt(DOMAIN tree, i)]).val]

\* The order of String on the words of the model.
WordRank(w) == CASE w = "feed" -> 1 [] w = "news" -> 2 [] w = "rust" -> 3

RECURSIVE TitleLess(_, _)
TitleLess(s, t) ==
    IF t = <<>> THEN FALSE
    ELSE IF s = <<>> THEN TRUE
    ELSE IF WordRank(Head(s)) # WordRank(Head(t)) THEN WordRank(Head(s)) < WordRank(Head(t))
    ELSE TitleLess(Tail(s), Tail(t))

IndexPerms(n) == {p \in [1..n -> 1..n] : \A i, j \in 1..n : i # j => p[i] # p[j]}

\* sort_by_cached_key(title): stable, so equal titles keep their order.
SortByTitle(seq) ==
    LET n == Len(seq)
        p == CHOOSE q \in IndexPerms(n) :
               \A i, j \in 1..n :
                  i < j => \/ TitleLess(seq[q[i]].title, seq[q[j]].title)
                           \/ seq[q[i]].title = seq[q[j]].title /\ q[i] < q[j]
    IN [i \in 1..n |-> seq[p[i]]]

\* sort_unstable_by_key(published): equal dates may come out in any order.
SortsByPublished(seq) ==
    LET n == Len(seq) IN
    {[i \in 1..n |-> seq[p[i]]] :
       p \in {q \in IndexPerms(n) :
                \A i, j \in 1..n : i < j => seq[q[i]].published <= seq[q[j]].published}}

Reverse(seq) == [i \in 1..Len(seq) |-> seq[Len(seq) + 1 - i]]

OrderBy(query) == IF query.order_by = None THEN "Published" ELSE query.order_by[1]

\* Variant: ascending whatever the sort key.
DefaultOrderAsc(order_by) == "Asc"

\* Lines 260-263: the direction when the request names none.
DefaultOrder(order_by) == IF order_by = "Title" THEN "Asc" ELSE "Desc"

\* Lines 244-257: the articles the loop keeps.
Kept(tree, blob, query) ==
    LET Keep(a) == /\ query.q # None => a.id \in Search(blob, query.q[1])
                   /\ query.field_id # None => a.feed_id = query.field_id[1]
    IN SelectSeq(ArticleIter(tree), Keep)

\* The id lists the handler can answer with.
SearchListings(tree, blob, query) ==
    LET order_by == OrderBy(query)
        order == IF query.order = None THEN DefaultOrder(order_by) ELSE query.order[1]
        sorted == IF order_by = "Title" THEN {SortByTitle(Kept(tree, blob, query))}
                  ELSE SortsByPublished(Kept(tree, blob, query))
    IN {[i \in 1..Len(l) |-> l[i].id] :
          l \in {IF order = "Desc" THEN Reverse(x) ELSE x : x \in sorted}}

Queries ==
    [q : {None, Some("rust")},
     field_id : {None, Some(1)},
     order_by : {None, Some("Title"), Some("Published")},
     order : {None, Some("Asc"), Some("Desc")}]

\* GET /api/v1/search.
SearchRequest ==
    /\ \E query \in Queries :
        \/ \E ids \in SearchListings(articles, index, query) :
              reply' = [op |-> "search_articles", query |-> query, result |-> "Ok",
                        ids |-> ids]
        \/ reply' = [op |-> "search_articles", query |-> query, result |-> "Sled",
                     ids |-> <<>>]
    /\ UNCHANGED <<now, feeds, articles, index, pc, started, task, snapshot, res,
                   idgen, trees, user>>

IdC == <<98>>                             \* "b"

\* The articles the fetches of two feeds can have stored.
CorpusArticles(id) ==
    { [id |-> id, feed_id |-> s[1], url |-> None, title |-> <<s[2]>>, summary |-> <<>>,
       published |-> d, content |-> <<>>] :
      s \in {<<0, "rust">>, <<1, "news">>}, d \in {1, 2, 3} }

Corpora ==
    { [k \in {ArticleKeyInsert(i) : i \in DOMAIN f} |->
         SerializeArticle(f[CHOOSE i \in DOMAIN f : ArticleKeyInsert(i) = k])] :
      f \in UNION {{g \in [ids -> UNION {CorpusArticles(i) : i \in ids}] :
                       \A i \in ids : g[i].id = i} :
                    ids \in SUBSET {IdA, IdB, IdC}} }

\* The requests of the slots R run on the runtime's worker threads, so their
\* storage operations interleave; one slot serves its requests one at a time.
\* PR: what the feeds' servers can send (parsed); FE: how a fetch can fail.
NextOf(R, PR, FE) ==
    \E r \in R :
        \/ StartRefresh(r)
        \/ StartRefreshFail(r)
        \/ StartTask(r)
        \/ \E i \in Tasks(r) : FetchFail(r, i, FE)
        \/ \E i \in Tasks(r) : FetchOk(r, i, PR)
        \/ \E i \in Tasks(r) : Upsert(r, i)
        \/ \E i \in Tasks(r) : UpsertFail(r, i)
        \/ \E i \in Tasks(r) : Stamp(r, i)
        \/ \E i \in Tasks(r) : WriteFeed(r, i)
        \/ \E i \in Tasks(r) : WriteFeedFail(r, i)
        \/ RebuildScan(r)
        \/ RebuildScanFail(r)
        \/ RebuildWrite(r)
        \/ RebuildWriteFail(r)
        \/ Respond(r)

\* Two feeds, refreshed by one request at a time (the intended deployment).
InitFeeds == InitOf({0, 1})
NextFeeds == NextOf({1}, PlainResults, FetchErrors)
SpecFeeds == InitFeeds /\ [][NextFeeds]_vars

\* One feed that can carry every entry, refreshed by one request at a time.
InitIndex == InitOf({0})
NextIndex == NextOf({1}, ParseResults, {"Reqwest"})
SpecIndex == InitIndex /\ [][NextIndex]_vars

\* One feed, refreshed by two requests that may overlap.
InitOverlap == InitOf({0})
NextOverlap == NextOf({1, 2}, PlainResults, {"Reqwest"})
SpecOverlap == InitOverlap /\ [][NextOverlap]_vars

\* One feed more than the limit.
CeilingFeeds == 0..ConcurrencyLimit

\* The servers answer in the order the requests went out.
InOrder(r, i) == \A j \in Tasks(r) : j < i => task[r][j].st # "await"

\* One request over a batch larger than the limit; every fetch fails, and the
\* responses arrive in request order.
InitCeiling == InitOf(CeilingFeeds)
NextCeiling ==
    \E r \in {1} :
        \/ StartRefresh(r)
        \/ StartRefreshFail(r)
        \/ StartTask(r)
        \/ \E i \in Tasks(r) : InOrder(r, i) /\ FetchFail(r, i, {"Reqwest"})
        \/ \E i \in Tasks(r) : Stamp(r, i)
        \/ \E i \in Tasks(r) : WriteFeed(r, i)
        \/ \E i \in Tasks(r) : WriteFeedFail(r, i)
        \/ RebuildScan(r)
        \/ RebuildScanFail(r)
        \/ RebuildWrite(r)
        \/ RebuildWriteFail(r)
SpecCeiling == InitCeiling /\ [][NextCeiling]_vars

\* The runtime keeps polling the request's task, every fetch that is out
\* returns and every storage call returns.
FairCeiling == SpecCeiling /\ WF_vars(NextCeiling)

\* Two feeds, refreshed by one request at a time while the user patches
\* feeds; every fetch fails.
InitPatch == InitOf({0, 1})
NextPatch ==
    \/ PatchFeed
    \/ \E r \in {1} :
        \/ StartRefresh(r)
        \/ StartTask(r)
        \/ \E i \in Tasks(r) : FetchFail(r, i, {"Reqwest"})
        \/ \E i \in Tasks(r) : Stamp(r, i)
        \/ \E i \in Tasks(r) : WriteFeed(r, i)
        \/ RebuildScan(r)
        \/ RebuildWrite(r)
        \/ Respond(r)
SpecPatch == InitPatch /\ [][NextPatch]_vars

\* Two users of one database, nobody subscribed yet.
InitTenants == InitOf({})
NextTenants ==
    \E u \in Usernames :
        \/ TSubscribe(u)
        \/ TPatch(u)
        \/ TRefreshFeed(u)
        \/ TRebuild(u)
        \/ TList(u)
        \/ TSearch(u)
SpecTenants == InitTenants /\ [][NextTenants]_vars

\* A user with stored and indexed articles, who lists and searches them.
InitSearch ==
    \E arts \in Corpora : InitWith({0, 1}, arts, IndexBlobAfter(None, ArticleAll(arts)))
NextSearch == SearchRequest
SpecSearch == InitSearch /\ [][NextSearch]_vars

\* One feed, refreshed by one request at a time while the user subscribes to
\* further feeds; every fetch fails.
InitSubscribe == InitOf({0})
NextSubscribe ==
    \/ PostFeed
    \/ \E r \in {1} :
        \/ StartRefresh(r)
        \/ StartTask(r)
        \/ \E i \in Tasks(r) : FetchFail(r, i, {"Reqwest"})
        \/ \E i \in Tasks(r) : Stamp(r, i)
        \/ \E i \in Tasks(r) : WriteFeed(r, i)
        \/ \E i \in Tasks(r) : WriteFeedFail(r, i)
        \/ RebuildScan(r)
        \/ RebuildWrite(r)
        \/ Respond(r)
SpecSubscribe == InitSubscribe /\ [][NextSubscribe]_vars

\* ====================================================================
\* Properties
\* ====================================================================

\* The stored articles with the given id, as Article::iter shows them.
Stored(tree, id) == {a \in ArticleAll(tree) : a.id = id}

\* The words of an article's title, summary and content.
WordsOf(a) ==
    {a.title[j] : j \in 1..Len(a.title)}
      \cup {a.summary[j] : j \in 1..Len(a.summary)}
      \cup {a.content[j] : j \in 1..Len(a.content)}

\* The token -> article ids mapping of the stored articles.
Postings(tree) ==
    [w \in UNION {WordsOf(a) : a \in ArticleAll(tree)} |->
        {a.id : a \in {x \in ArticleAll(tree) : w \in WordsOf(x)}}]

\* The persisted blob is the mapping derived from the stored articles.
IndexMatches == index # None /\ DeserializeIndex(index[1]) = Postings(articles)

Returned(r) == pc[r] = "done"

\* The invocation ended on a storage failure of the feed registry (listing the
\* feeds, or persisting a feed record).
RegistryFailure(r) == res[r].v = "Sled" /\ res[r].line \in {64, 75}

FeedOf(r, i) == feeds[FeedKey(task[r][i].feed.id)]

\* C1: when the fetch worker upserts a date-less entry whose id already has a
\* stored article, the stored article keeps its published value.
C1_PublishedPreserved ==
    [][\A r \in Refreshes : \A i \in Tasks(r) :
         LET t == task[r][i] IN
         (/\ t.st = "loop"
          /\ task'[r][i].idx = t.idx + 1
          /\ t.parsed[t.idx].published = None)
         => \A a \in Stored(articles, t.parsed[t.idx].id) :
              \A b \in Stored(articles', t.parsed[t.idx].id) :
                b.published = a.published]_vars

\* C2: when a refresh returns without a storage failure of the feed registry,
\* every feed of the batch has been processed to the end, whatever fetch errors
\* its siblings had, and every feed whose worker succeeded has its entries
\* stored and its last_error cleared.
C2_FailureIsolation ==
    \A r \in Refreshes :
        (Returned(r) /\ ~RegistryFailure(r)) =>
            \A i \in Tasks(r) :
                /\ task[r][i].st = "done"
                /\ task[r][i].result = "Ok" =>
                     /\ FeedOf(r, i).last_error = None
                     /\ \A k \in 1..Len(task[r][i].parsed) :
                          \E a \in Stored(articles, task[r][i].parsed[k].id) :
                             /\ a.title = UnwrapOrDefault(task[r][i].parsed[k].title)
                             /\ a.feed_id \in {task[r][j].feed.id : j \in Tasks(r)}

\* A refresh has returned success; one feed failed on the network or in the
\* parser, and a sibling succeeded with an entry.
C2_Witness ==
    \E r \in Refreshes :
        /\ Returned(r)
        /\ res[r].v = "Ok"
        /\ \E i, j \in Tasks(r) :
            /\ task[r][i].result \in FetchErrors
            /\ task[r][j].result = "Ok"
            /\ task[r][j].parsed # <<>>

\* C3: after a refresh returns success, a feed of the batch has no last_error
\* exactly if its worker succeeded, and otherwise the worker's message.
C3_HealthRecord ==
    \A r \in Refreshes :
        (Returned(r) /\ res[r].v = "Ok") =>
            \A i \in Tasks(r) :
                /\ (FeedOf(r, i).last_error = None) <=> (task[r][i].result = "Ok")
                /\ task[r][i].result # "Ok" =>
                     FeedOf(r, i).last_error = Some(ErrorMessage(task[r][i].result))

\* A successful refresh in which one worker failed and one succeeded.
C3_Witness ==
    \E r \in Refreshes :
        /\ Returned(r)
        /\ res[r].v = "Ok"
        /\ \E i, j \in Tasks(r) :
            /\ task[r][i].result = "FeedRS"
            /\ FeedOf(r, i).last_error # None
            /\ task[r][j].result = "Ok"
            /\ FeedOf(r, j).last_error = None

\* C4: while the index rebuild of a refresh runs, and after it, every per-feed
\* task of that batch has completed: none is queued, in flight or running.
C4_BarrierBeforeRebuild ==
    \A r \in Refreshes :
        (pc[r] = "rebuild" \/ (Returned(r) /\ res[r].line \in {78, 80})) =>
            \A i \in Tasks(r) : task[r][i].st = "done"

\* The rebuild of a batch of two feeds has scanned the articles.
C4_Witness ==
    \E r \in Refreshes :
        /\ pc[r] = "rebuild"
        /\ Cardinality(Tasks(r)) = 2
        /\ snapshot[r] # {}

\* C5: right after a rebuild, searching a word of a stored article's title,
\* summary or content returns that article's id, and searching a word of no
\* stored article returns nothing.
C5_IndexAfterRebuild ==
    \A r \in Refreshes :
        (Returned(r) /\ res[r].v = "Ok") =>
            /\ \A a \in ArticleAll(articles) : \A w \in WordsOf(a) :
                 a.id \in Search(index, w)
            /\ \A w \in Words :
                 (\A a \in ArticleAll(articles) : w \notin WordsOf(a)) =>
                     Search(index, w) = {}

\* After a rebuild, a word is found and another word, of no stored article,
\* is not.
C5_Witness ==
    \E r \in Refreshes :
        /\ Returned(r)
        /\ res[r].v = "Ok"
        /\ Cardinality(DOMAIN articles) = 2
        /\ \E w \in Words : Search(index, w) # {}
        /\ \E w \in Words : Search(index, w) = {}

\* C6: when no refresh is in progress and the refreshes have returned success,
\* the persisted index is the mapping derived from the stored articles, also
\* when the refreshes overlapped.
C6_IndexAfterOverlap ==
    (\A r \in Refreshes : Returned(r) /\ res[r].v = "Ok") => IndexMatches

\* C7: a refresh never returns a fetch error; it returns success only with
\* the index rebuilt from the stored articles, and fetch errors show in the
\* feeds' last_error.
C7_RefreshOutcome ==
    \A r \in Refreshes :
        Returned(r) =>
            /\ res[r].v \in {"Ok", "Sled"}
            /\ res[r].v = "Ok" => IndexMatches
            /\ ~RegistryFailure(r) =>
                 /\ res[r].line \in {78, 80}
                 /\ \A i \in Tasks(r) :
                      task[r][i].result \in FetchErrors =>
                          FeedOf(r, i).last_error = Some(ErrorMessage(task[r][i].result))

\* Both feeds of the batch failed to fetch and the refresh returned success.
C7_Witness ==
    \E r \in Refreshes :
        /\ Returned(r)
        /\ res[r].v = "Ok"
        /\ Cardinality(Tasks(r)) = 2
        /\ \A i \in Tasks(r) : task[r][i].result \in FetchErrors

\* C8: a storage failure of an article upsert makes the refresh return an error.
C8_UpsertFailureSurfaces ==
    \A r \in Refreshes :
        (Returned(r) /\ \E i \in Tasks(r) : task[r][i].result = "Sled") =>
            res[r].v # "Ok"

\* C9: when a refresh returns, no feed of the batch is left without its
\* health update because a sibling's record could not be persisted.
C9_EveryFeedStamped ==
    \A r \in Refreshes :
        Returned(r) => \A i \in Tasks(r) : task[r][i].st # "dropped"

\* C10: after a refresh returns success, every feed of its batch has a
\* persisted last_fetch_time at or after the start of that refresh.
C10_FetchTimeAfterStart ==
    \A r \in Refreshes :
        (Returned(r) /\ res[r].v = "Ok") =>
            \A i \in Tasks(r) : FeedOf(r, i).last_fetch_time >= started[r]

\* C11: the persisted last_fetch_time of a feed never decreases, also when
\* refreshes of the same user overlap.
C11_FetchTimeMonotonic ==
    [][\A k \in DOMAIN feeds :
         k \in DOMAIN feeds' =>
             feeds'[k].last_fetch_time >= feeds[k].last_fetch_time]_vars

\* The futures of r whose closure has returned or that were dropped.
Finished(r) == {i \in Tasks(r) : task[r][i].st \in {"done", "failed", "dropped"}}

\* C12: at every moment of a refresh at most 32 per-feed tasks of the batch
\* are in flight, and a task beyond the first 32 has started only after as many
\* tasks of the batch have finished as it lies beyond the limit.
C12_BoundedParallelism ==
    \A r \in Refreshes :
        /\ InFlight(r) <= ConcurrencyLimit
        /\ \A i \in Tasks(r) :
             (i > ConcurrencyLimit /\ task[r][i].st # "queued") =>
                 Cardinality(Finished(r) \ {i}) >= i - ConcurrencyLimit

\* The feed behind the ceiling has been started after a slot became free, and
\* the limit is reached again.
C12_Witness ==
    \E r \in Refreshes :
        /\ Cardinality(Tasks(r)) > ConcurrencyLimit
        /\ task[r][ConcurrencyLimit + 1].st = "await"
        /\ InFlight(r) = ConcurrencyLimit

\* C13: after apply_patch of an existing feed id, when no storage operation
\* failed, the stored record has every supplied field equal to the patch value
\* and every other field as before the call.
C13_PatchPersisted ==
    [][(/\ reply' # reply
        /\ reply'.op = "patch_feed"
        /\ FeedKey(reply'.patch.id) \in DOMAIN feeds
        /\ reply'.result # "Sled")
       => /\ reply'.result = "Ok"
          /\ feeds' = FeedInsert(feeds,
                          PatchOverlay(feeds[FeedKey(reply'.patch.id)], reply'.patch))]_vars

\* C14: apply_patch of a feed id that is not in the registry fails with
\* NotFound (or with the storage error of the read) and leaves the registry
\* unchanged; apply_patch of an id that is in the registry never reports
\* NotFound.
C14_NotFoundTyped ==
    [][(reply' # reply /\ reply'.op = "patch_feed")
       => IF FeedKey(reply'.patch.id) \in DOMAIN feeds
          THEN reply'.result # "NotFound"
          ELSE reply'.result \in {"NotFound", "Sled"} /\ feeds' = feeds]_vars

\* What a user's handle reaches.
View(u) ==
    [feeds |-> OpenTree(trees, OpenUser(u).feeds),
     articles |-> OpenTree(trees, OpenUser(u).articles),
     index |-> OpenTree(trees, OpenUser(u).index)]

\* C15: a request of one user leaves the feeds, articles and index of every
\* other user as they were, and what it returns comes from the user's own
\* subscriptions and articles, also when the users' feeds have the same name
\* and their articles the same id.
C15_TenantIsolation ==
    [][\A u \in Usernames :
         user' = u =>
            /\ \A v \in Usernames \ {u} : View(v)' = View(v)
            /\ reply'.op = "list" =>
                 /\ \A i \in 1..Len(reply'.feeds) : reply'.feeds[i].url = <<"http", u>>
                 /\ \A a \in reply'.articles : a.title = <<WordOf(u)>>
            /\ reply'.op = "search" =>
                 (reply'.ids # {} => reply'.term = WordOf(u))]_vars

\* Both users have a feed of the same name and an article of the same id,
\* indexed, and one of them has just searched the other's word.
C15_Witness ==
    /\ \A u \in Usernames :
         /\ View(u).feeds # <<>>
         /\ \E a \in ArticleAll(View(u).articles) : a.id = IdA
         /\ View(u).index # None
    /\ reply.op = "search"
    /\ reply.ids = {}
    /\ \E v \in Usernames \ {user} : reply.term = WordOf(v)

\* The article a listed id names.
ArticleOf(id) == CHOOSE a \in ArticleAll(articles) : a.id = id

\* C16: a search call without order-by and direction returns the ids of
\* exactly the stored articles that pass the term and feed filters (all of
\* them when there is neither), each once, latest published first.
C16_DefaultListingOrder ==
    (/\ reply.op = "search_articles"
     /\ reply.result = "Ok"
     /\ reply.query.order_by = None
     /\ reply.query.order = None)
    => LET ids == reply.ids
           kept == {a \in ArticleAll(articles) :
                      /\ reply.query.q # None => a.id \in Search(index, reply.query.q[1])
                      /\ reply.query.field_id # None => a.feed_id = reply.query.field_id[1]}
       IN /\ {ids[i] : i \in 1..Len(ids)} = {a.id : a \in kept}
          /\ Len(ids) = Cardinality(kept)
          /\ \A i, j \in 1..Len(ids) :
               i < j => ArticleOf(ids[i]).published >= ArticleOf(ids[j]).published

\* Three articles of three dates, listed by the default call.
C16_Witness ==
    /\ reply.op = "search_articles"
    /\ reply.result = "Ok"
    /\ reply.query = [q |-> None, field_id |-> None, order_by |-> None, order |-> None]
    /\ Len(reply.ids) = 3
    /\ \A i, j \in 1..3 :
         i < j => ArticleOf(reply.ids[i]).published > ArticleOf(reply.ids[j]).published

\* C17: when the lookup of the previously stored article fails, the turn of
\* the entry loop still stores the entry and goes on to the next entry or to a
\* successful end; only a failure of the upsert itself fails the worker, and
\* no feed gets a serialization error as last_error.
C17_LookupDegrades ==
    [][\A r \in Refreshes : \A i \in Tasks(r) :
         LET t == task[r][i] IN
         (/\ t.st = "loop"
          /\ ~ArticleGetId(articles, t.parsed[t.idx].id).ok
          /\ task'[r][i] # t)
         => /\ \/ task'[r][i].result = "Sled" /\ articles' = articles
               \/ /\ task'[r][i].idx = t.idx + 1
                  /\ task'[r][i].st = IF t.idx = Len(t.parsed) THEN "fetched" ELSE "loop"
                  /\ task'[r][i].result = IF t.idx = Len(t.parsed) THEN "Ok" ELSE "none"
                  /\ \E a \in Stored(articles', t.parsed[t.idx].id) :
                       a.title = UnwrapOrDefault(t.parsed[t.idx].title)
            /\ \A k \in DOMAIN feeds' :
                 feeds'[k].last_error # Some(ErrorMessage("Encode"))]_vars

\* The worker has finished a feed whose entry "a" was upserted although the
\* lookup of "a" hits the record of another article and fails to decode it.
C17_Witness ==
    \E r \in Refreshes : \E i \in Tasks(r) :
        /\ task[r][i].st = "fetched"
        /\ task[r][i].result = "Ok"
        /\ Len(task[r][i].parsed) = 1
        /\ task[r][i].parsed[1].id = IdA
        /\ ~ArticleGetId(articles, IdA).ok
        /\ Stored(articles, IdA) # {}

\* The keys of the feeds the running refreshes have listed.
BatchKeys ==
    UNION {{FeedKey(task[r][i].feed.id) : i \in Tasks(r)} : r \in Refreshes}

\* C18: no step removes a feed or changes a feed's id, url, name or scraper;
\* a record changes only if a running refresh has listed it; and a feed is
\* added only by a subscription, as the record the subscription builds.
C18_RefreshFrame ==
    [][/\ \A k \in DOMAIN feeds :
            /\ k \in DOMAIN feeds'
            /\ feeds'[k].id = feeds[k].id
            /\ feeds'[k].url = feeds[k].url
            /\ feeds'[k].name = feeds[k].name
            /\ feeds'[k].scraper = feeds[k].scraper
            /\ feeds'[k] # feeds[k] => k \in BatchKeys
       /\ \A k \in DOMAIN feeds' \ DOMAIN feeds :
            /\ idgen' = idgen + 1
            /\ feeds'[k] = Subscription]_vars

\* A refresh has returned success while the registry holds a feed that was
\* subscribed to after the refresh listed its batch; that feed is as
\* subscribed, and the feed of the batch is stamped.
C18_Witness ==
    \E r \in Refreshes :
        /\ Returned(r)
        /\ res[r].v = "Ok"
        /\ Tasks(r) # {}
        /\ \A i \in Tasks(r) : FeedOf(r, i).last_fetch_time > MIN_UTC
        /\ \E k \in DOMAIN feeds \ BatchKeys :
             /\ feeds[k].name = "news"
             /\ feeds[k].last_fetch_time = MIN_UTC

\* C19: no step removes a stored article, and a step changes a stored article
\* only by upserting the entry of its id; an article whose entry is no longer
\* in the feed's parse result stays as it is.
C19_MonotoneCorpus ==
    [][\A k \in DOMAIN articles :
         /\ k \in DOMAIN articles'
         /\ articles'[k] # articles[k] =>
              \E r \in Refreshes : \E i \in Tasks(r) :
                 /\ task[r][i].st = "loop"
                 /\ ArticleKeyInsert(task[r][i].parsed[task[r][i].idx].id) = k]_vars

\* The worker has finished a feed whose parse result no longer has the entry
\* of a stored article.
C19_Witness ==
    \E r \in Refreshes : \E i \in Tasks(r) :
        /\ task[r][i].st = "fetched"
        /\ task[r][i].result = "Ok"
        /\ \E a \in ArticleAll(articles) :
             \A k \in 1..Len(task[r][i].parsed) : task[r][i].parsed[k].id # a.id

\* C20: under fair scheduling every refresh that has started returns to its
\* caller, and unless it returns an error every feed of its batch, the ones
\* queued behind the ceiling included, has got a slot and been processed.
C20_RefreshTerminates ==
    \A r \in Refreshes :
        (pc[r] \in {"tasks", "rebuild"})
          ~> (/\ Returned(r)
              /\ res[r].v = "Ok" => \A i \in Tasks(r) : task[r][i].st = "done")

\* The refresh of a batch larger than the limit has returned success with
\* every feed processed.
C20_Witness ==
    \E r \in Refreshes :
        /\ Returned(r)
        /\ res[r].v = "Ok"
        /\ Cardinality(Tasks(r)) > ConcurrencyLimit
        /\ \A i \in Tasks(r) : task[r][i].st = "done"

\* C21: every article the article tree holds, that is the article of the last
\* successful Article::insert for its id, is what Article::get_id returns for
\* that id: Some article equal to it, neither None nor an error.
C21_ArticleRoundTrip ==
    \A k \in DOMAIN articles :
        LET a == DeserializeArticle(articles[k]).val IN
        ArticleGetId(articles, a.id) = Ok(Some(a))

====
